---- MODULE Spec2Model ----
(***************************************************************************)
(* A model of github_skills_analyzer.py: the source-control client         *)
(* (GitHubAnalyzer), the heuristic scorers, the language-model summarizer  *)
(* (AISkillsAnalyzer), the report renderer (ReportGenerator) and main().   *)
(*                                                                         *)
(* Numbers that are floats in the program are kept exact: a score that is  *)
(* a multiple of 0.2 is counted in fifths, a proficiency in tenths, and    *)
(* the collaboration score is a fraction <<numerator, denominator>>.       *)
(***************************************************************************)
EXTENDS Integers, Sequences, FiniteSets, TLC

VARIABLES
    pc,                 \* where the modelled program stands
    response,           \* _make_request: what the GET produced
    result,             \* _make_request: what the call returned or raised
    readme_content,     \* _score_readme_quality: the README text
    readme_score,       \* _score_readme_quality: the score, in fifths
    repos,              \* the repository listing (get_repositories)
    selected_repos,     \* analyze_repository_activity: the selected repositories
    collaboration,      \* analyze_collaboration_patterns: CollaborationData
    page,               \* the page number of the running paginated fetch
    commits,            \* get_commits_for_repo: the retained commit summaries
    all_commits,        \* the CommitData list handed to the summarizer
    chat,               \* the outcome of the chat-completion call
    chat_calls,         \* how many times the chat endpoint was invoked
    skills,             \* the SkillAssessment
    language_usage,     \* analyze_commits: the extension Counter
    temporal_analysis,  \* analyze_commits: the two periods
    json_data,          \* generate_json_report: the structured report
    markdown,           \* generate_markdown_report: the rendering, as blocks
    config,             \* main: the environment-sourced configuration
    remote,             \* what the source-control API holds
    faults,             \* how many requests have failed so far
    requests,           \* every request issued to the source-control API
    profile,            \* main: the user profile
    repo_data,          \* analyze_documentation_quality: RepositoryData list
    repo_index,         \* the repository the running loop stands at
    commit_index,       \* the commit summary the detail loop stands at
    written_files,      \* the report files written
    exit_status         \* how the process ended

vars == <<pc, response, result, readme_content, readme_score, repos,
          selected_repos, collaboration, page, commits, all_commits, chat,
          chat_calls, skills, language_usage, temporal_analysis, json_data,
          markdown, config, remote, faults, requests, profile, repo_data,
          repo_index, commit_index, written_files, exit_status>>

requestVars  == <<response, result>>
readmeVars   == <<readme_content, readme_score>>
repoVars     == <<repos, selected_repos, collaboration>>
pagingVars   == <<page, commits>>
analysisVars == <<all_commits, chat, chat_calls, skills, language_usage,
                  temporal_analysis>>
reportVars   == <<json_data, markdown>>
mainVars     == <<config, remote, faults, requests, profile, repo_data,
                  repo_index, commit_index, written_files, exit_status>>

None == [kind |-> "None"]

\* The state of the parts of the program a run does not exercise.
IdleRequest  == response = None /\ result = None
IdleReadme   == readme_content = <<>> /\ readme_score = 0
IdleRepos    == repos = <<>> /\ selected_repos = <<>> /\ collaboration = None
IdlePaging   == page = 1 /\ commits = <<>>
IdleAnalysis == /\ all_commits = <<>>
                /\ chat = None
                /\ chat_calls = 0
                /\ skills = None
                /\ language_usage = <<>>
                /\ temporal_analysis = None
IdleReport   == json_data = None /\ markdown = <<>>
IdleMain     == /\ config = None
                /\ remote = None
                /\ faults = 0
                /\ requests = <<>>
                /\ profile = None
                /\ repo_data = <<>>
                /\ repo_index = 1
                /\ commit_index = 1
                /\ written_files = <<>>
                /\ exit_status = "running"

Min(a, b) == IF a <= b THEN a ELSE b
Max(a, b) == IF a >= b THEN a ELSE b

\* seq[:n]
Take(seq, n) == SubSeq(seq, 1, Min(n, Len(seq)))

(***************************************************************************)
(* GitHubAnalyzer._make_request                                            *)
(***************************************************************************)

\* A response header: missing, an integer in decimal, or some other text.
HeaderValues(ints) ==
    {[kind |-> "missing", val |-> 0], [kind |-> "text", val |-> 0]}
        \cup {[kind |-> "int", val |-> v] : v \in ints}

\* What one GET can produce.  transport: session.get returned or raised;
\* status: the HTTP status; remaining, reset: the two rate-limit headers;
\* (reset counts whole years since 1970, not seconds, to keep the numbers
\* small); body: whether the body decodes as JSON, and to what.
Outcomes ==
    [transport  : {"ok", "ConnectionError", "Timeout"},
     status     : {200, 304, 403, 404, 500},
     remaining  : HeaderValues({-1, 0, 9, 10, 99, 100}),
     reset      : HeaderValues({0, 56, 9000}),
     body       : {"malformed", "null", "object", "empty list", "list"}]

\* int(response.headers.get(name, 0))
HeaderIsInt(h) == h.kind # "text"
HeaderInt(h) == IF h.kind = "int" THEN h.val ELSE 0

\* datetime.fromtimestamp accepts the timestamps of the years up to 9999.
FromTimestampOk(years) == 1970 + years <= 9999

Returned(v, log) == [kind |-> "returned", value |-> v, log |-> log]
Raised(exc, log) == [kind |-> "raised", value |-> exc, log |-> log]

\* The call, from the GET to the return: the value returned ("None" is the
\* absence value) or the exception that leaves the function, with what was
\* logged.  Only requests.exceptions.RequestException is caught: the errors of
\* session.get, the HTTPError of raise_for_status (status 400 to 599) and the
\* JSONDecodeError of response.json() are such; the ValueError of int() and
\* the OverflowError of datetime.fromtimestamp are not.
_make_request(o) ==
    IF o.transport # "ok"
    THEN Returned("None", {"error"})
    ELSE IF o.status >= 400
    THEN Returned("None", {"error"})
    ELSE IF ~HeaderIsInt(o.remaining) \/ ~HeaderIsInt(o.reset)
    THEN Raised("ValueError", {})
    ELSE LET remaining == HeaderInt(o.remaining)
             reset_time == HeaderInt(o.reset)
             log == IF remaining < 10 THEN {"warning"}
                    ELSE IF remaining < 100 THEN {"info"}
                    ELSE {}
         IN  IF remaining < 10 /\ ~FromTimestampOk(reset_time)
             THEN Raised("OverflowError", {})
             ELSE IF o.body = "malformed"
             THEN Returned("None", log \cup {"error"})
             ELSE Returned(IF o.body = "null" THEN "None" ELSE o.body, log)

InitRequest ==
    /\ pc = "request"
    /\ IdleRequest /\ IdleReadme /\ IdleRepos /\ IdlePaging
    /\ IdleAnalysis /\ IdleReport /\ IdleMain

\* One call of _make_request, whatever the remote answers.
MakeRequest ==
    /\ pc = "request"
    /\ \E o \in Outcomes :
          /\ response' = o
          /\ result' = _make_request(o)
    /\ pc' = "request done"
    /\ UNCHANGED <<readmeVars, repoVars, pagingVars, analysisVars,
                   reportVars, mainVars>>

NextRequest == MakeRequest

SpecRequest == InitRequest /\ [][NextRequest]_vars

\* C1: _make_request never lets an exception escape: whatever the GET
\* produced, the call returns the decoded body or None.
C1_NeverRaises == pc = "request done" => result.kind = "returned"

(***************************************************************************)
(* GitHubAnalyzer._score_readme_quality                                    *)
(***************************************************************************)

MaxReadmeWords == 5

\* A README is a sequence of words joined by single newlines.  The words
\* stand for the texts the five indicators look at; "prose" is 500
\* characters of running text with none of them and "fence" is a line of
\* three backquotes.
Words == {"prose", "Installation", "SETUP", "usage", "Example", "fence", "#",
          "###"}

WordLen(w) ==
    CASE w = "prose" -> 500
      [] w = "Installation" -> 12
      [] w = "SETUP" -> 5
      [] w = "usage" -> 5
      [] w = "Example" -> 7
      [] w = "fence" -> 3
      [] w = "#" -> 1
      [] w = "###" -> 3

\* str.lower()
Lower(w) ==
    CASE w = "Installation" -> "installation"
      [] w = "SETUP" -> "setup"
      [] w = "Example" -> "example"
      [] OTHER -> w

\* w.count('#')
HashCount(w) == CASE w = "#" -> 1 [] w = "###" -> 3 [] OTHER -> 0

RECURSIVE WordsLen(_)
WordsLen(content) ==
    IF content = <<>> THEN 0
    ELSE WordLen(Head(content)) + WordsLen(Tail(content))

\* len(content), content.count('#'), sub in content
ContentLen(content) ==
    IF content = <<>> THEN 0 ELSE WordsLen(content) + Len(content) - 1

RECURSIVE ContentHashes(_)
ContentHashes(content) ==
    IF content = <<>> THEN 0
    ELSE HashCount(Head(content)) + ContentHashes(Tail(content))

Contains(content, w) == \E i \in 1..Len(content) : content[i] = w
LowerContains(content, w) == \E i \in 1..Len(content) : Lower(content[i]) = w

BoolInt(b) == IF b THEN 1 ELSE 0

\* The mutant that counts a README of exactly 500 characters as long and
\* asks for four '#'.
_score_readme_quality_OffByOne(content) ==
    IF content = <<>> THEN 0
    ELSE Min(5, BoolInt(ContentLen(content) >= 500)
              + BoolInt(LowerContains(content, "installation")
                          \/ LowerContains(content, "setup"))
              + BoolInt(LowerContains(content, "usage")
                          \/ LowerContains(content, "example"))
              + BoolInt(Contains(content, "fence"))
              + BoolInt(ContentHashes(content) > 3))

\* The score in fifths (each indicator adds 0.2; min(score, 1.0)).
_score_readme_quality(content) ==
    IF content = <<>> THEN 0
    ELSE Min(5, BoolInt(ContentLen(content) > 500)
              + BoolInt(LowerContains(content, "installation")
                          \/ LowerContains(content, "setup"))
              + BoolInt(LowerContains(content, "usage")
                          \/ LowerContains(content, "example"))
              + BoolInt(Contains(content, "fence"))
              + BoolInt(ContentHashes(content) >= 3))

\* get_readme_content returns the text or None.
Readmes ==
    {None} \cup
    {[kind |-> "str", text |-> t] :
        t \in UNION {[1..n -> Words] : n \in 0..MaxReadmeWords}}

\* analyze_documentation_quality, line 270: None and '' score 0.
ReadmeScore(readme) ==
    IF readme = None \/ readme.text = <<>> THEN 0
    ELSE _score_readme_quality(readme.text)

InitReadme ==
    /\ pc = "readme"
    /\ readme_content \in Readmes
    /\ readme_score = 0
    /\ IdleRequest /\ IdleRepos /\ IdlePaging /\ IdleAnalysis /\ IdleReport
    /\ IdleMain

ScoreReadme ==
    /\ pc = "readme"
    /\ readme_score' = ReadmeScore(readme_content)
    /\ pc' = "readme done"
    /\ UNCHANGED <<readme_content, requestVars, repoVars, pagingVars,
                   analysisVars, reportVars, mainVars>>

NextReadme == ScoreReadme

SpecReadme == InitReadme /\ [][NextReadme]_vars

\* The five conditions of the documentation score, as the specification
\* words them.
ReadmeConditions(text) ==
    {c \in 1..5 :
        \/ c = 1 /\ ContentLen(text) > 500
        \/ c = 2 /\ \E i \in 1..Len(text) :
                        Lower(text[i]) \in {"installation", "setup"}
        \/ c = 3 /\ \E i \in 1..Len(text) :
                        Lower(text[i]) \in {"usage", "example"}
        \/ c = 4 /\ \E i \in 1..Len(text) : text[i] = "fence"
        \/ c = 5 /\ ContentHashes(text) >= 3}

\* C5: the documentation score is 0.2 times the number of satisfied
\* conditions; content that satisfies one more condition than the scored
\* content scores exactly 0.2 more; the score never exceeds 1.0; absent or
\* empty content scores 0.0 and content satisfying all five scores 1.0.
C5_ScoreCountsConditions ==
    pc = "readme done" =>
        /\ readme_score <= 5
        /\ readme_content = None => readme_score = 0
        /\ readme_content # None =>
            LET text == readme_content.text IN
            /\ readme_score = Cardinality(ReadmeConditions(text))
            /\ text = <<>> => readme_score = 0
            /\ ReadmeConditions(text) = 1..5 => readme_score = 5
            /\ \A w \in Words :
                 LET more == Append(text, w) IN
                 Cardinality(ReadmeConditions(more))
                     = Cardinality(ReadmeConditions(text)) + 1
                 => _score_readme_quality(more) = readme_score + 1

\* A README of more than 500 characters with an installation word, an
\* example word, a fence and three '#' has been scored.
C5_Witness ==
    /\ pc = "readme done"
    /\ readme_content # None
    /\ ReadmeConditions(readme_content.text) = 1..5
    /\ readme_score = 5

(***************************************************************************)
(* The repository listing: analyze_repository_activity's selection and     *)
(* analyze_collaboration_patterns                                          *)
(***************************************************************************)

MaxRepos == 4
ActiveLimit == 20

\* A repository of the listing.  updated_at is the ISO timestamp, which
\* orders as text the way it orders in time: a positive number stands for a
\* timestamp, 0 for the empty string and -1 for a missing or null field.
\* private and fork are "True", "False" or "missing".
Repo(name, updated_at, private, fork) ==
    [name |-> name, updated_at |-> updated_at, private |-> private,
     fork |-> fork]

\* r.get('updated_at') is truthy
HasUpdatedAt(r) == r.updated_at > 0

\* The mutant whose sort puts the later listed of two repositories of equal
\* updated_at first.
PrecedesByUpdated_Unstable(listing, j, i) ==
    \/ listing[j].updated_at > listing[i].updated_at
    \/ listing[j].updated_at = listing[i].updated_at /\ j > i

\* listing[j] comes before listing[i] after sort(key=updated_at,
\* reverse=True): list.sort is stable, also with reverse=True.
PrecedesByUpdated(listing, j, i) ==
    \/ listing[j].updated_at > listing[i].updated_at
    \/ listing[j].updated_at = listing[i].updated_at /\ j < i

\* The sorted list: place[i] is where listing[i] goes (one more than the
\* number of entries that come before it).
SortByUpdatedDescending(listing) ==
    LET n == Len(listing)
        place == SubSeq([i \in 1..n |->
                            1 + Cardinality({j \in 1..n :
                                    PrecedesByUpdated(listing, j, i)})],
                        1, n)
    IN  [k \in 1..n |-> listing[CHOOSE i \in 1..n : place[i] = k]]

\* Lines 218 to 222: filter, sort, slice.
SelectedRepos(listing) ==
    Take(SortByUpdatedDescending(SelectSeq(listing, HasUpdatedAt)),
         ActiveLimit)

\* not r.get('private', True): a missing field counts as private.
IsPublic(r) == r.private = "False"
\* r.get('fork', False)
IsFork(r) == r.fork = "True"

\* Lines 317 to 332.  The score is kept as a fraction of tenths:
\* (forked * 0.1 + original * 0.3) / max(total, 1), then min(..., 1.0).
analyze_collaboration_patterns(listing) ==
    LET total_repos == Len(listing)
        public_repos ==
            Cardinality({i \in 1..Len(listing) : IsPublic(listing[i])})
        forked_repos ==
            Cardinality({i \in 1..Len(listing) : IsFork(listing[i])})
        original_repos == public_repos - forked_repos
        num == forked_repos * 1 + original_repos * 3
        den == 10 * Max(total_repos, 1)
    IN  [kind |-> "CollaborationData",
         pull_requests_created |-> 0,
         pull_requests_reviewed |-> 0,
         issues_created |-> 0,
         issues_commented |-> 0,
         repos_contributed_to |-> forked_repos,
         collaboration_score |->
            IF num > den THEN [num |-> den, den |-> den]
            ELSE [num |-> num, den |-> den]]

\* Listings of up to MaxRepos repositories whose update times vary.
TimedListings ==
    UNION {[1..n -> {Repo(0, t, "False", "False") : t \in -1..2}] :
             n \in 0..MaxRepos}

\* Listings of up to MaxRepos repositories whose visibility and fork flag
\* vary.
FlaggedListings ==
    UNION {[1..n -> {Repo(0, 1, p, f) :
                        p \in {"True", "False", "missing"},
                        f \in {"True", "False", "missing"}}] :
             n \in 0..MaxRepos}

\* Listings around the limit of 20: update times rising, falling, all equal,
\* or three timestamps in turn with every fifth one missing or empty.
LongListings ==
    {[i \in 1..n |->
        Repo(0, CASE shape = "rising" -> i
                  [] shape = "falling" -> n + 1 - i
                  [] shape = "equal" -> 1
                  [] shape = "mixed" ->
                        IF i % 5 = 0 THEN (i % 2) - 1 ELSE (i % 3) + 1,
             "False", "False")] :
        n \in (ActiveLimit - 1)..(ActiveLimit + 2) \cup {ActiveLimit + 8},
        shape \in {"rising", "falling", "equal", "mixed"}}

\* Each repository is named by its place in the listing.
Named(listing) ==
    [i \in 1..Len(listing) |-> [listing[i] EXCEPT !.name = i]]

Listings ==
    {Named(l) : l \in TimedListings \cup FlaggedListings \cup LongListings}

InitRepos ==
    /\ pc \in {"analyze_repository_activity", "analyze_collaboration_patterns"}
    /\ repos \in Listings
    /\ selected_repos = <<>>
    /\ collaboration = None
    /\ IdleRequest /\ IdleReadme /\ IdlePaging /\ IdleAnalysis /\ IdleReport
    /\ IdleMain

\* analyze_repository_activity, up to the slice of line 222; the loop of
\* line 225 then starts at the first selected repository.
SelectActiveRepositories ==
    /\ pc = "analyze_repository_activity"
    /\ selected_repos' = SelectedRepos(repos)
    /\ repo_index' = 1
    /\ commit_index' = 1
    /\ page' = 1
    /\ commits' = <<>>
    /\ pc' = "get_commits_for_repo"
    /\ UNCHANGED <<response, result, readme_content, readme_score, repos,
                  collaboration, all_commits, chat, chat_calls, skills,
                  language_usage, temporal_analysis, json_data, markdown,
                  config, remote, faults, requests, profile, repo_data,
                  written_files, exit_status>>

\* Step 4 of main.
AnalyzeCollaborationPatterns ==
    /\ pc = "analyze_collaboration_patterns"
    /\ collaboration' = analyze_collaboration_patterns(repos)
    /\ pc' = "ai"
    /\ UNCHANGED <<response, result, readme_content, readme_score, repos,
                  selected_repos, page, commits, all_commits, chat,
                  chat_calls, skills, language_usage, temporal_analysis,
                  json_data, markdown, config, remote, faults, requests,
                  profile, repo_data, repo_index, commit_index,
                  written_files, exit_status>>

NextRepos == SelectActiveRepositories \/ AnalyzeCollaborationPatterns

SpecRepos == InitRepos /\ [][NextRepos]_vars

\* The place of the repository named n in the listing (names are places).
Selected(n) == \E i \in 1..Len(selected_repos) : selected_repos[i].name = n

\* r comes before q in the order of the selection: newer first, and among
\* equal update times the one listed first.
Before(r, q) ==
    \/ r.updated_at > q.updated_at
    \/ r.updated_at = q.updated_at /\ r.name < q.name

\* C3: the selection holds at most 20 repositories, newest first, none
\* without an update timestamp, repositories of equal updated_at in their
\* listing order, and it is the first 20 of the filtered, sorted listing:
\* every repository with a timestamp that is left out comes after every
\* selected one.
C3_Selection ==
    pc = "get_commits_for_repo" =>
        /\ Len(selected_repos) <= ActiveLimit
        /\ Len(selected_repos)
             = Min(ActiveLimit, Cardinality({i \in 1..Len(repos) :
                                               repos[i].updated_at > 0}))
        /\ \A i \in 1..Len(selected_repos) :
              /\ selected_repos[i].updated_at > 0
              /\ selected_repos[i].name \in 1..Len(repos)
              /\ repos[selected_repos[i].name] = selected_repos[i]
        /\ \A i, j \in 1..Len(selected_repos) :
              i < j => Before(selected_repos[i], selected_repos[j])
        /\ \A k \in 1..Len(repos) :
              repos[k].updated_at > 0 /\ ~Selected(k) =>
                  \A i \in 1..Len(selected_repos) :
                      Before(selected_repos[i], repos[k])

\* More than 20 repositories with a timestamp, some of equal updated_at and
\* some with none, have been cut to 20.
C3_Witness ==
    /\ pc = "get_commits_for_repo"
    /\ Len(selected_repos) = ActiveLimit
    /\ Len(repos) > ActiveLimit
    /\ \E k \in 1..Len(repos) : repos[k].updated_at > 0 /\ ~Selected(k)
    /\ \E k \in 1..Len(repos) : repos[k].updated_at <= 0
    /\ \E i, j \in 1..Len(selected_repos) :
          i < j /\ selected_repos[i].updated_at = selected_repos[j].updated_at

\* C4: the collaboration score lies in [0,1] for every listing and is 0 for
\* the empty listing.
C4_ScoreInUnitInterval ==
    pc = "ai" =>
        LET score == collaboration.collaboration_score IN
        /\ 0 <= score.num
        /\ score.num <= score.den
        /\ repos = <<>> => score.num = 0

(***************************************************************************)
(* AISkillsAnalyzer: analyze_commits, _parse_ai_response and               *)
(* _create_fallback_assessment                                             *)
(***************************************************************************)

MaxCommits == 2
MaxReplyLines == 3
ProcessedLimit == 100
MidLevelCommits == 50
SeniorCommits == 200
MessageLimit == 200

\* file.split('.')[-1].lower() if '.' in file else 'unknown'
Ext(file) ==
    CASE file = "main.py" -> "py"
      [] file = "app.js" -> "js"
      [] file = "README.md" -> "md"
      [] file = "CHANGES.md" -> "md"
      [] file = "docs.md" -> "md"
      [] file = "logo.PNG" -> "png"
      [] file = ".gitignore" -> "gitignore"
      [] file = "Makefile" -> "unknown"

excluded_extensions ==
    {"json", "xml", "yaml", "yml", "toml", "ini", "cfg", "conf",
     "png", "jpg", "jpeg", "gif", "svg", "ico", "bmp", "webp",
     "pdf", "doc", "docx", "txt", "rtf",
     "md", "rst", "html", "htm",
     "csv", "tsv", "xlsx", "xls",
     "zip", "tar", "gz", "rar", "7z",
     "log", "tmp", "cache", "lock",
     "gitignore", "gitkeep", "env", "example"}

CommitData(sha, message, date, additions, deletions, files_changed, repo_name) ==
    [sha |-> sha, message |-> message, date |-> date,
     additions |-> additions, deletions |-> deletions,
     files_changed |-> files_changed, repo_name |-> repo_name]

\* A Counter is the sequence of its <<key, count>> entries in the order the
\* keys were first counted.
CounterKeys(counter) == {counter[i][1] : i \in 1..Len(counter)}

CounterGet(counter, key) ==
    IF key \in CounterKeys(counter)
    THEN counter[CHOOSE i \in 1..Len(counter) : counter[i][1] = key][2]
    ELSE 0

\* counter[key] += 1
Increment(counter, key) ==
    IF key \in CounterKeys(counter)
    THEN [i \in 1..Len(counter) |->
            IF counter[i][1] = key THEN <<key, counter[i][2] + 1>>
            ELSE counter[i]]
    ELSE Append(counter, <<key, 1>>)

RECURSIVE CountFiles(_, _)
CountFiles(counter, files) ==
    IF files = <<>> THEN counter
    ELSE CountFiles(Increment(counter, Ext(Head(files))), Tail(files))

RECURSIVE CounterTotal(_)
CounterTotal(counter) ==
    IF counter = <<>> THEN 0 ELSE Head(counter)[2] + CounterTotal(Tail(counter))

\* What a counter holds after counting into it, key by key, what another
\* counter holds: its own keys first, then the new keys in their order.
MergeCounters(c1, c2) ==
    [i \in 1..Len(c1) |-> <<c1[i][1], c1[i][2] + CounterGet(c2, c1[i][1])>>]
        \o SelectSeq(c2, LAMBDA e : e[1] \notin CounterKeys(c1))

\* The counter after the loop "for commit in cs: for file in
\* commit.files_changed: counter[ext] += 1", started empty.  The list is
\* counted half by half, which gives the same counter as counting it
\* commit by commit.
RECURSIVE TallyCommits(_)
TallyCommits(cs) ==
    IF cs = <<>> THEN <<>>
    ELSE IF Len(cs) = 1 THEN CountFiles(<<>>, cs[1].files_changed)
    ELSE LET half == Len(cs) \div 2 IN
         MergeCounters(TallyCommits(SubSeq(cs, 1, half)),
                       TallyCommits(SubSeq(cs, half + 1, Len(cs))))

\* counter[j] comes before counter[i] in most_common's order: the larger
\* count first, equal counts in the order of first occurrence.
PrecedesByCount(counter, j, i) ==
    \/ counter[j][2] > counter[i][2]
    \/ counter[j][2] = counter[i][2] /\ j < i

SortByCount(counter) ==
    LET n == Len(counter)
        place == SubSeq([i \in 1..n |->
                            1 + Cardinality({j \in 1..n :
                                    PrecedesByCount(counter, j, i)})],
                        1, n)
    IN  [k \in 1..n |-> counter[CHOOSE i \in 1..n : place[i] = k]]

\* Counter.most_common(n)
most_common(counter, n) == Take(SortByCount(counter), n)

\* The mutant that leaves the commits in the order of the list.
PrecedesByDate_ListOrder(cs, j, i) == j < i

\* cs[j] comes before cs[i] in sorted(commits, key=lambda c: c.date): the
\* older first, equal dates in the order of the list.
PrecedesByDate(cs, j, i) ==
    \/ cs[j].date < cs[i].date
    \/ cs[j].date = cs[i].date /\ j < i

SortByDate(cs) ==
    LET n == Len(cs)
        place == SubSeq([i \in 1..n |->
                            1 + Cardinality({j \in 1..n :
                                    PrecedesByDate(cs, j, i)})],
                        1, n)
    IN  [k \in 1..n |-> cs[CHOOSE i \in 1..n : place[i] = k]]

\* commit in early_commits: the dataclass compares field by field.
InList(c, cs) == \E i \in 1..Len(cs) : cs[i] = c

\* The entry of commit_summaries for one commit.
CommitSummary(c) ==
    [message |-> [c.message EXCEPT !.len = Min(c.message.len, MessageLimit)],
     additions |-> c.additions, deletions |-> c.deletions,
     files |-> Len(c.files_changed), repo |-> c.repo_name, date |-> c.date]

\* One period of temporal_analysis after the loop of lines 361 to 387: the
\* summaries and the extension counts of the processed commits the test of
\* line 378 sent to it.
Period(cs) ==
    [commits |-> [i \in 1..Len(cs) |-> CommitSummary(cs[i])],
     languages |-> TallyCommits(cs)]

\* Lines 344 to 387: what analyze_commits has computed before the chat call.
Prepared(cs) ==
    LET commits_sorted == SortByDate(cs)
        mid_point == Len(commits_sorted) \div 2
        early_commits == IF mid_point > 0
                         THEN SubSeq(commits_sorted, 1, mid_point) ELSE <<>>
        recent_commits == IF mid_point > 0
                          THEN SubSeq(commits_sorted, mid_point + 1,
                                      Len(commits_sorted))
                          ELSE commits_sorted
        processed == Take(cs, ProcessedLimit)
    IN  [language_usage |-> TallyCommits(processed),
         commit_summaries |->
            [i \in 1..Len(processed) |-> CommitSummary(processed[i])],
         temporal_analysis |->
            [early_period |->
                Period(SelectSeq(processed,
                                 LAMBDA c : InList(c, early_commits))),
             recent_period |->
                Period(SelectSeq(processed,
                                 LAMBDA c : ~InList(c, early_commits))),
             early_commits |-> early_commits,
             recent_commits |-> recent_commits]]

\* round(x, 1) of x = num / den >= 0, in tenths, ties to the even tenth.
RoundTenths(num, den) ==
    LET q == (10 * num) \div den
        r == (10 * num) % den
    IN  IF 2 * r < den THEN q
        ELSE IF 2 * r > den THEN q + 1
        ELSE IF q % 2 = 0 THEN q ELSE q + 1

\* The mutant that scans the counter without the denylist test.
TechnicalSkills_NoDenylist(counter) ==
    LET top == most_common(counter, 10)
        max_count == most_common(counter, 1)[1][2]
    IN  [i \in 1..Len(top) |->
            <<top[i][1], Min(100, RoundTenths(top[i][2] * 10, max_count))>>]

\* Lines 505 to 514: the dict technical_skills as its <<lang, proficiency>>
\* entries in insertion order, the proficiency in tenths.
TechnicalSkills(counter) ==
    LET top == most_common(counter, 10)
        max_count == most_common(counter, 1)[1][2]
        kept == SelectSeq(top, LAMBDA e : e[1] \notin excluded_extensions)
    IN  [i \in 1..Len(kept) |->
            <<kept[i][1], Min(100, RoundTenths(kept[i][2] * 10, max_count))>>]

\* The lines a reply is made of.  "[garbled bullet]" stands for the four
\* characters the source's second startswith literal holds (a bullet sign
\* read in the wrong encoding) and "[bullet]" for the bullet sign itself.
ReplyLines ==
    {"3. CURRENT STRENGTHS:", "4. Improvement areas:", "Focus Areas",
     "- writes tests", "  - small commits", "- strengths in API design",
     "[garbled bullet] refactoring", "[bullet] documentation",
     "Overall solid."}

\* line.strip()
Strip(line) == IF line = "  - small commits" THEN "- small commits" ELSE line

\* 'STRENGTHS' in line.upper()
HasStrengths(line) ==
    line \in {"3. CURRENT STRENGTHS:", "- strengths in API design"}

\* 'IMPROVEMENT' in line.upper() or 'AREAS' in line.upper()
HasImprovementOrAreas(line) ==
    line \in {"4. Improvement areas:", "Focus Areas"}

\* line.startswith('- ') or line.startswith(the garbled bullet and a space)
IsBullet(line) ==
    line \in {"- writes tests", "- small commits",
              "- strengths in API design", "[garbled bullet] refactoring"}

\* line[2:]
Rest(line) ==
    CASE line = "- writes tests" -> "writes tests"
      [] line = "- small commits" -> "small commits"
      [] line = "- strengths in API design" -> "strengths in API design"
      [] line = "[garbled bullet] refactoring" -> "[half bullet] refactoring"

\* The loop of lines 523 to 533 over the lines that are left.
RECURSIVE ParseLines(_, _)
ParseLines(lines, acc) ==
    IF lines = <<>> THEN acc
    ELSE LET line == Strip(Head(lines)) IN
         ParseLines(Tail(lines),
            IF HasStrengths(line)
            THEN [acc EXCEPT !.current_section = "strengths"]
            ELSE IF HasImprovementOrAreas(line)
            THEN [acc EXCEPT !.current_section = "improvements"]
            ELSE IF IsBullet(line)
            THEN IF acc.current_section = "strengths"
                 THEN [acc EXCEPT !.strengths = Append(@, Rest(line))]
                 ELSE IF acc.current_section = "improvements"
                 THEN [acc EXCEPT !.improvements = Append(@, Rest(line))]
                 ELSE acc
            ELSE acc)

\* Lines 536 to 542.
ExperienceLevel(counter) ==
    LET total_commits == CounterTotal(counter)
    IN  IF total_commits < MidLevelCommits THEN "Junior"
        ELSE IF total_commits < SeniorCommits THEN "Mid-level"
        ELSE "Senior"

SkillAssessment(technical_skills, strengths, improvement_areas, experience_level, specializations, learning_style, confidence_score) ==
    [kind |-> "SkillAssessment",
     technical_skills |-> technical_skills,
     strengths |-> strengths,
     improvement_areas |-> improvement_areas,
     experience_level |-> experience_level,
     specializations |-> specializations,
     learning_style |-> learning_style,
     confidence_score |-> confidence_score]

\* The assessment built from a reply that is text; confidence 0.8 is 8
\* tenths.
_parse_ai_response(analysis_text, counter) ==
    LET parsed == ParseLines(analysis_text,
                     [current_section |-> "None", strengths |-> <<>>,
                      improvements |-> <<>>])
    IN  SkillAssessment(TechnicalSkills(counter),
                        Take(parsed.strengths, 5),
                        Take(parsed.improvements, 5),
                        ExperienceLevel(counter),
                        most_common(counter, 3),
                        "Inferred from commit patterns",
                        8)

\* min(10, count / 10) for the five most common extensions, in tenths;
\* confidence 0.3 is 3 tenths.
_create_fallback_assessment(counter) ==
    LET top == most_common(counter, 5)
    IN  SkillAssessment([i \in 1..Len(top) |->
                            <<top[i][1], Min(100, top[i][2])>>],
                        <<"Active contributor", "Multi-language experience">>,
                        <<"Detailed analysis requires OpenAI API">>,
                        "Unable to determine",
                        most_common(counter, 2),
                        "Unable to determine",
                        3)

\* What the chat call can produce: an exception, a reply whose content is
\* None, or a reply whose content is text (a sequence of lines).
ChatError == [kind |-> "error", content |-> <<>>]
ChatNoContent == [kind |-> "no content", content |-> <<>>]
ChatReply(lines) == [kind |-> "reply", content |-> lines]

\* The mutant that parses the reply outside the try block: a reply without
\* content raises.
Assess_ParseOutsideTry(c, counter) ==
    IF c.kind = "error" THEN _create_fallback_assessment(counter)
    ELSE IF c.kind = "no content"
    THEN [kind |-> "raised", confidence_score |-> 0,
          experience_level |-> "AttributeError"]
    ELSE _parse_ai_response(c.content, counter)

\* Lines 392 to 409: the try block.  The call raising, and the parse raising
\* on a content that is None (None has no split), both end in the except
\* branch.
Assess(c, counter) ==
    IF c.kind = "reply" THEN _parse_ai_response(c.content, counter)
    ELSE _create_fallback_assessment(counter)

(***************************************************************************)
(* ReportGenerator                                                         *)
(***************************************************************************)

Str(v) == [kind |-> "str", value |-> v]

\* sum(c.additions for c in commits), summed half by half.
RECURSIVE SumAdditions(_)
SumAdditions(cs) ==
    IF cs = <<>> THEN 0
    ELSE IF Len(cs) = 1 THEN cs[1].additions
    ELSE LET half == Len(cs) \div 2 IN
         SumAdditions(SubSeq(cs, 1, half))
            + SumAdditions(SubSeq(cs, half + 1, Len(cs)))

\* sum(c.deletions for c in commits), summed half by half.
RECURSIVE SumDeletions(_)
SumDeletions(cs) ==
    IF cs = <<>> THEN 0
    ELSE IF Len(cs) = 1 THEN cs[1].deletions
    ELSE LET half == Len(cs) \div 2 IN
         SumDeletions(SubSeq(cs, 1, half))
            + SumDeletions(SubSeq(cs, half + 1, Len(cs)))

\* The mutant whose maximum is the last of the commits with most additions.
MaxByAdditions_Last(cs) ==
    cs[CHOOSE i \in 1..Len(cs) :
          /\ \A j \in 1..Len(cs) : cs[j].additions <= cs[i].additions
          /\ \A j \in (i + 1)..Len(cs) : cs[j].additions < cs[i].additions]

\* max(commits, key=lambda c: c.additions): the first of the commits with
\* the most additions.
MaxByAdditions(cs) ==
    cs[CHOOSE i \in 1..Len(cs) :
          /\ \A j \in 1..Len(cs) : cs[j].additions <= cs[i].additions
          /\ \A j \in 1..(i - 1) : cs[j].additions < cs[i].additions]

Recommendation(category, priority, items) ==
    [category |-> category, priority |-> priority, items |-> items]

\* The mutant that lists every improvement area.
_generate_learning_recommendations_AllAreas(assessment) ==
    (IF assessment.improvement_areas # <<>>
     THEN <<Recommendation("Technical Skills Development", "High",
               [i \in 1..Len(assessment.improvement_areas) |->
                   <<"Focus on: ", assessment.improvement_areas[i]>>])>>
     ELSE <<>>)
    \o (IF assessment.experience_level = "Junior"
        THEN <<Recommendation("Foundation Building", "High",
                  <<"Master version control best practices",
                    "Learn test-driven development",
                    "Study software design patterns",
                    "Practice code review skills">>)>>
        ELSE IF assessment.experience_level = "Mid-level"
        THEN <<Recommendation("Advanced Development", "Medium",
                  <<"Explore system architecture patterns",
                    "Contribute to open source projects",
                    "Mentor junior developers",
                    "Learn about DevOps practices">>)>>
        ELSE <<>>)
    \o <<Recommendation("Communication & Documentation", "Medium",
            <<"Improve README quality with examples",
              "Write technical blog posts",
              "Create architecture decision records",
              "Practice explaining complex concepts simply">>)>>

\* Lines 684 to 734; an item "Focus on: {area}" is the pair of the prefix
\* and the area.
_generate_learning_recommendations(assessment) ==
    (IF assessment.improvement_areas # <<>>
     THEN <<Recommendation("Technical Skills Development", "High",
               [i \in 1..Min(3, Len(assessment.improvement_areas)) |->
                   <<"Focus on: ", assessment.improvement_areas[i]>>])>>
     ELSE <<>>)
    \o (IF assessment.experience_level = "Junior"
        THEN <<Recommendation("Foundation Building", "High",
                  <<"Master version control best practices",
                    "Learn test-driven development",
                    "Study software design patterns",
                    "Practice code review skills">>)>>
        ELSE IF assessment.experience_level = "Mid-level"
        THEN <<Recommendation("Advanced Development", "Medium",
                  <<"Explore system architecture patterns",
                    "Contribute to open source projects",
                    "Mentor junior developers",
                    "Learn about DevOps practices">>)>>
        ELSE <<>>)
    \o <<Recommendation("Communication & Documentation", "Medium",
            <<"Improve README quality with examples",
              "Write technical blog posts",
              "Create architecture decision records",
              "Practice explaining complex concepts simply">>)>>

generate_json_report(prof, cs, repository_data, collab, assessment) ==
    [kind |-> "report",
     metadata |-> [commits_analyzed |-> Len(cs),
                   repositories_analyzed |-> Len(repository_data)],
     profile |-> prof,
     activity_summary |->
        [total_commits |-> Len(cs),
         total_additions |-> SumAdditions(cs),
         total_deletions |-> SumDeletions(cs),
         active_repositories |->
            Cardinality({cs[i].repo_name : i \in 1..Len(cs)}),
         most_active_repo |->
            IF cs # <<>> THEN Str(MaxByAdditions(cs).repo_name) ELSE None],
     technical_skills |-> assessment,
     repository_analysis |-> repository_data,
     collaboration_metrics |-> collab,
     learning_recommendations |->
        _generate_learning_recommendations(assessment)]

Block(name, cells) == [block |-> name, cells |-> cells]

RECURSIVE RecommendationBlocks(_)
RecommendationBlocks(recs) ==
    IF recs = <<>> THEN <<>>
    ELSE <<Block("recommendation",
                 <<Head(recs).category, Head(recs).priority>>)>>
         \o [i \in 1..Len(Head(recs).items) |->
                Block("recommendation item", <<Head(recs).items[i]>>)]
         \o RecommendationBlocks(Tail(recs))

\* The Markdown text as the sequence of its blocks (a heading, a table
\* header, a table row, a list item), each with the values it shows.
generate_markdown_report(data) ==
    LET summary == data.activity_summary
        assessment == data.technical_skills
        table == assessment.technical_skills
    IN  <<Block("title", <<data.metadata.commits_analyzed>>),
          Block("activity summary",
                <<summary.total_commits, summary.total_additions,
                  summary.total_deletions, summary.active_repositories,
                  IF summary.most_active_repo = None THEN Str("N/A")
                  ELSE summary.most_active_repo>>),
          Block("skills heading", <<>>)>>
        \o (IF table # <<>>
            THEN <<Block("skills table header", <<>>)>>
                 \o [i \in 1..Len(table) |-> Block("skills row", table[i])]
            ELSE <<>>)
        \o <<Block("strengths heading", <<>>)>>
        \o [i \in 1..Len(assessment.strengths) |->
               Block("strength", <<assessment.strengths[i]>>)]
        \o <<Block("improvements heading", <<>>)>>
        \o [i \in 1..Len(assessment.improvement_areas) |->
               Block("improvement", <<assessment.improvement_areas[i]>>)]
        \o <<Block("developer profile",
                   <<assessment.experience_level,
                     assessment.confidence_score>>),
             Block("recommendations heading", <<>>)>>
        \o RecommendationBlocks(data.learning_recommendations)
        \o <<Block("repository table header", <<>>)>>
        \o [i \in 1..Len(data.repository_analysis) |->
               Block("repository row", <<data.repository_analysis[i].name>>)]

(***************************************************************************)
(* Steps 5 to 7 of main: the assessment and the report, for any commit list *)
(***************************************************************************)

\* The commits of the small lists: two commits, of one repository or of two,
\* each on one of two dates and with one of four file lists; a commit that
\* changes no source file has no changed line and a message of 250
\* characters, the others four changed lines and a short message.
SmallCommits ==
    {CommitData(id[1], [text |-> "message", len |-> ch[2]], date,
                ch[3], ch[4], ch[1], id[2]) :
        id \in {<<1, "a">>, <<2, "a">>, <<2, "b">>},
        date \in 1..2,
        ch \in {<<<<>>, 250, 0, 0>>,
                <<<<"main.py">>, 10, 3, 1>>,
                <<<<"README.md", "CHANGES.md", "docs.md", "app.js">>,
                  10, 3, 1>>,
                <<<<"Makefile", "logo.PNG", ".gitignore">>, 250, 0, 0>>}}

SmallCommitLists == UNION {[1..n -> SmallCommits] : n \in 0..MaxCommits}

\* Lists whose lengths lie at the thresholds: every commit changes no
\* file, one file or five files, or all change README.md and the first one
\* main.py too; the dates rise or fall along the list.
LongCommitLists ==
    {[i \in 1..n |->
        CommitData(i, [text |-> "message", len |-> 10],
                   IF rising THEN i ELSE n + 1 - i, i % 3, 1,
                   CASE shape = "no file" -> <<>>
                     [] shape = "one file" -> <<"main.py">>
                     [] shape = "five files" ->
                          <<"main.py", "app.js", "README.md", "Makefile",
                            "logo.PNG">>
                     [] shape = "documents" ->
                          IF i = 1 THEN <<"README.md", "main.py">>
                          ELSE <<"README.md">>,
                   "a")] :
        n \in {8, MidLevelCommits - 1, MidLevelCommits, ProcessedLimit,
               ProcessedLimit + 1, SeniorCommits},
        shape \in {"no file", "one file", "five files", "documents"},
        rising \in BOOLEAN}

CommitLists == SmallCommitLists \cup LongCommitLists

Replies == UNION {[1..n -> ReplyLines] : n \in 0..MaxReplyLines}

\* What the chat endpoint may answer: a failure, a reply without content,
\* or a reply with text, which is any reply of up to MaxReplyLines lines
\* when the summarizer is run on its own on a list of at most one commit,
\* and one plain reply for the longer lists and in a run of main.
ChatOutcomes(cs) ==
    {ChatError, ChatNoContent} \cup
    (IF Len(cs) <= 1 /\ remote = None THEN {ChatReply(r) : r \in Replies}
     ELSE {ChatReply(<<"3. CURRENT STRENGTHS:", "- writes tests",
                       "4. Improvement areas:", "- small commits">>)})

InitAnalysis ==
    /\ pc = "ai"
    /\ all_commits \in CommitLists
    /\ chat = None
    /\ chat_calls = 0
    /\ skills = None
    /\ language_usage = <<>>
    /\ temporal_analysis = None
    /\ IdleRequest /\ IdleReadme /\ IdleRepos /\ IdlePaging /\ IdleReport
    /\ IdleMain

\* Step 5, ai_analyzer.analyze_commits(commits), up to the chat call:
\* lines 344 to 390.
AnalyzeCommitsPrepare ==
    /\ pc = "ai"
    /\ LET prepared == Prepared(all_commits) IN
          /\ language_usage' = prepared.language_usage
          /\ temporal_analysis' = prepared.temporal_analysis
    /\ pc' = "chat"
    /\ UNCHANGED <<all_commits, chat, chat_calls, skills, requestVars,
                   readmeVars, repoVars, pagingVars, reportVars, mainVars>>

\* Step 5, the try block of lines 392 to 409: the one chat call, then the
\* parse or the fallback.
AnalyzeCommitsChat ==
    /\ pc = "chat"
    /\ \E c \in ChatOutcomes(all_commits) :
          /\ chat' = c
          /\ skills' = Assess(c, language_usage)
    /\ chat_calls' = chat_calls + 1
    /\ pc' = "report"
    /\ UNCHANGED <<all_commits, language_usage, temporal_analysis,
                   requestVars, readmeVars, repoVars, pagingVars, reportVars,
                   mainVars>>

\* Step 6, report_generator.generate_json_report(...).
GenerateJsonReport ==
    /\ pc = "report"
    /\ json_data' = generate_json_report(profile, all_commits, repo_data,
                                         collaboration, skills)
    /\ pc' = "save"
    /\ UNCHANGED <<markdown, requestVars, readmeVars, repoVars, pagingVars,
                   analysisVars, mainVars>>

\* Steps 7 and 8, save_reports and the printed summary: the JSON file, the
\* Markdown rendering and its file, then the normal end of main.
SaveReports ==
    /\ pc = "save"
    /\ markdown' = generate_markdown_report(json_data)
    /\ written_files' = written_files \o <<"json", "md">>
    /\ exit_status' = "normal"
    /\ pc' = "done"
    /\ UNCHANGED <<json_data, requestVars, readmeVars, repoVars, pagingVars,
                   analysisVars, config, remote, faults, requests, profile,
                   repo_data, repo_index, commit_index>>

NextAnalysis ==
    \/ AnalyzeCommitsPrepare
    \/ AnalyzeCommitsChat
    \/ GenerateJsonReport
    \/ SaveReports

SpecAnalysis == InitAnalysis /\ [][NextAnalysis]_vars

AfterChat == pc \in {"report", "save", "done"}

\* C2: analyze_commits always returns a SkillAssessment: the fallback one
\* (experience "Unable to determine", confidence 0.3) when the chat call
\* fails or its reply has no text to parse, one of confidence 0.8 when call
\* and parse succeed, whatever the commits are.
C2_AssessmentAlwaysReturned ==
    AfterChat =>
        /\ skills.kind = "SkillAssessment"
        /\ chat.kind = "reply" => skills.confidence_score = 8
        /\ chat.kind # "reply" =>
              /\ skills.confidence_score = 3
              /\ skills.experience_level = "Unable to determine"
              /\ skills.strengths
                   = <<"Active contributor", "Multi-language experience">>

\* The reply had no content, the parse raised, and the fallback assessment
\* was returned for a list of two commits.
C2_Witness ==
    /\ AfterChat
    /\ chat.kind = "no content"
    /\ Len(all_commits) = 2
    /\ skills.confidence_score = 3

\* The experience level the thresholds give for a number of commits.
LevelFor(n) ==
    IF n < MidLevelCommits THEN "Junior"
    ELSE IF n < SeniorCommits THEN "Mid-level"
    ELSE "Senior"

\* C6: in a model-derived assessment the experience level follows from the
\* number of commits (under 50 Junior, 50 to 199 Mid-level, 200 and more
\* Senior), whatever number of files each commit changed.
C6_LevelFromCommitCount ==
    AfterChat /\ chat.kind = "reply" =>
        skills.experience_level = LevelFor(Len(all_commits))

MaxCount(counter) ==
    IF counter = <<>> THEN 0
    ELSE CHOOSE m \in {counter[i][2] : i \in 1..Len(counter)} :
             \A i \in 1..Len(counter) : counter[i][2] <= m

\* C7: in a model-derived assessment no key of technical_skills is on the
\* denylist, and every kept extension is scored 10 * count / maxCount
\* rounded to one decimal (within half a tenth of it), between 0 and 10.
C7_NoDenylistedSkill ==
    AfterChat /\ chat.kind = "reply" =>
        \A i \in 1..Len(skills.technical_skills) :
            LET lang == skills.technical_skills[i][1]
                score == skills.technical_skills[i][2]
                count == CounterGet(language_usage, lang)
                top == MaxCount(language_usage)
            IN  /\ lang \notin excluded_extensions
                /\ count > 0
                /\ 0 <= score /\ score <= 100
                /\ 2 * (score * top - 100 * count) <= top
                /\ 2 * (100 * count - score * top) <= top

\* The most frequent extension is md, which is left out, and js is kept
\* with a score that had to be rounded.
C7_Witness ==
    /\ AfterChat /\ chat.kind = "reply"
    /\ CounterGet(language_usage, "md") = MaxCount(language_usage)
    /\ \E i \in 1..Len(skills.technical_skills) :
          /\ skills.technical_skills[i][1] = "js"
          /\ skills.technical_skills[i][2] = 33

HasBlock(name) == \E i \in 1..Len(markdown) : markdown[i].block = name

\* The activity totals of the report, as the claim words them.
TotalsFromCommits ==
    LET summary == json_data.activity_summary
        n == Len(all_commits)
    IN  /\ summary.total_commits = n
        /\ summary.total_additions =
              1 * Cardinality({i \in 1..n : all_commits[i].additions = 1})
            + 2 * Cardinality({i \in 1..n : all_commits[i].additions = 2})
            + 3 * Cardinality({i \in 1..n : all_commits[i].additions = 3})
        /\ summary.total_deletions =
              Cardinality({i \in 1..n : all_commits[i].deletions = 1})
        /\ summary.active_repositories =
              Cardinality({all_commits[i].repo_name : i \in 1..n})
        /\ n > 0 =>
              \E i \in 1..n :
                 /\ summary.most_active_repo = Str(all_commits[i].repo_name)
                 /\ \A j \in 1..n :
                       all_commits[j].additions <= all_commits[i].additions
                 /\ \A j \in 1..(i - 1) :
                       all_commits[j].additions < all_commits[i].additions
        /\ n = 0 =>
              /\ summary.total_additions = 0
              /\ summary.total_deletions = 0
              /\ summary.active_repositories = 0
              /\ summary.most_active_repo = None
              /\ json_data.technical_skills.technical_skills = <<>>

\* C8 as claimed: the totals come from the commit list, and for an empty
\* commit list the skills table is present but empty in the structured
\* document and in the Markdown rendering.
C8_EmptyTableRendered ==
    pc = "done" =>
        /\ TotalsFromCommits
        /\ all_commits = <<>> =>
              HasBlock("skills table header") /\ ~HasBlock("skills row")

\* C8 as amended: the totals come from the commit list (most_active_repo is
\* the repository of the first commit with the most additions); for an empty
\* commit list the report is still produced, with zero totals, no most
\* active repository and an empty skills mapping in the structured
\* document, and the Markdown rendering keeps the skills heading but has no
\* skills table at all.
C8_Totals ==
    pc = "done" =>
        /\ TotalsFromCommits
        /\ written_files = <<"json", "md">>
        /\ HasBlock("skills heading")
        /\ all_commits = <<>> =>
              ~HasBlock("skills table header") /\ ~HasBlock("skills row")

\* Reports were written for an empty commit list, and for two commits of
\* equal additions in different repositories.
C8_WitnessEmpty == pc = "done" /\ all_commits = <<>> /\ markdown # <<>>

C8_Witness ==
    /\ pc = "done"
    /\ Len(all_commits) = 2
    /\ all_commits[1].additions = all_commits[2].additions
    /\ all_commits[1].repo_name # all_commits[2].repo_name
    /\ json_data.activity_summary.most_active_repo
         = Str(all_commits[1].repo_name)

(***************************************************************************)
(* GitHubAnalyzer: the paginated fetches, and main() from its first line   *)
(***************************************************************************)

MaxPages == 4
MaxFaults == 1
PerPage == 100
RepoCap == 300
CommitCap == 200
DocumentedLimit == 10
DetailLimit == 50

\* GITHUB_USERNAME
username == "user"

\* A JSON list.
List(items) == [kind |-> "list", items |-> items]

\* A commit of a commits page: its sha, the login of its GitHub author
\* ("none" when author is null) and the e-mail of commit.author ("" when
\* empty, "none" when commit.author is missing).
ListedCommit(sha, login, email) == [sha |-> sha, login |-> login, email |-> email]

\* is_user_commit, lines 163 to 179
IsUserCommit(c) == c.login = username \/ c.email \notin {"", "none"}

UserCommits(items) == SelectSeq(items, IsUserCommit)

\* What _make_request gives its caller: the decoded body, None, or an
\* exception that is not a RequestException.  fault counts the answers that
\* are a failure of the transport or of the response and not what the
\* remote holds.
Data(body) == [kind |-> "data", data |-> body, fault |-> 0]
Absent(fault) == [kind |-> "absent", data |-> None, fault |-> fault]
Raises == [kind |-> "raises", data |-> None, fault |-> 1]

\* The answers to a request for something the remote holds (or does not
\* hold: None, a 404); at most MaxFaults requests of a run fail.
Answers(held) ==
    {IF held = None THEN Absent(0) ELSE Data(held)}
        \cup (IF faults < MaxFaults THEN {Absent(1), Raises} ELSE {})

\* The mutant whose loop never stops at the cap.
ExtendCommits_NoCap(acc, a) ==
    IF a.kind # "data" \/ Len(a.data.items) = 0
    THEN [items |-> acc, advance |-> 0, stop |-> TRUE]
    ELSE [items |-> acc \o UserCommits(a.data.items), advance |-> 1,
          stop |-> FALSE]

\* One turn of the loop of get_commits_for_repo (lines 156 to 190) on the
\* answer a: the commits accumulated, whether page moves on, whether the
\* loop is left.
ExtendCommits(acc, a) ==
    IF a.kind # "data" \/ Len(a.data.items) = 0
    THEN [items |-> acc, advance |-> 0, stop |-> TRUE]
    ELSE LET grown == acc \o UserCommits(a.data.items) IN
         [items |-> grown, advance |-> 1, stop |-> Len(grown) >= CommitCap]

\* The mutant whose page number moves on by two.
ExtendRepositories_SkipPage(acc, a) ==
    IF a.kind # "data" \/ Len(a.data.items) = 0
    THEN [items |-> acc, advance |-> 0, stop |-> TRUE]
    ELSE LET grown == acc \o a.data.items IN
         [items |-> grown, advance |-> 2, stop |-> Len(grown) >= RepoCap]

\* One turn of the loop of get_repositories (lines 130 to 139).
ExtendRepositories(acc, a) ==
    IF a.kind # "data" \/ Len(a.data.items) = 0
    THEN [items |-> acc, advance |-> 0, stop |-> TRUE]
    ELSE LET grown == acc \o a.data.items IN
         [items |-> grown, advance |-> 1, stop |-> Len(grown) >= RepoCap]

\* A remote that may answer a page request with anything.
OpenRemote == [kind |-> "open"]

PageSizes == {1, PerPage - 1, PerPage}

RepoPage(p, n) ==
    [i \in 1..n |-> Repo(PerPage * (p - 1) + i, 1, "False", "False")]

\* The answers of the open remote to the request for page p of the
\* listing: absence, an empty page, or a page of 1, 99 or 100 repositories;
\* after MaxPages pages, absence or an empty page.
RepositoryPages(p) ==
    {Absent(0), Data(List(<<>>))} \cup
    (IF p <= MaxPages THEN {Data(List(RepoPage(p, n))) : n \in PageSizes}
     ELSE {})

\* A page of n commits: all by the user's login, all by some e-mail only,
\* none attributed, every second one by the user, or all but the first.
CommitPage(p, n, pattern) ==
    [i \in 1..n |->
        ListedCommit(PerPage * (p - 1) + i,
            CASE pattern = "login" -> username
              [] pattern = "email" -> "none"
              [] pattern = "unattributed" -> "other"
              [] pattern = "alternate" ->
                    IF i % 2 = 0 THEN username ELSE "other"
              [] pattern = "all but first" ->
                    IF i = 1 THEN "none" ELSE username,
            CASE pattern = "login" -> "dev@example.org"
              [] pattern = "email" -> "dev@example.org"
              [] pattern = "unattributed" -> ""
              [] pattern = "alternate" -> "none"
              [] pattern = "all but first" -> "")]

CommitPageShapes ==
    {<<1, "login">>, <<1, "unattributed">>, <<PerPage - 1, "email">>,
     <<PerPage, "login">>, <<PerPage, "unattributed">>,
     <<PerPage, "alternate">>, <<PerPage, "all but first">>}

CommitPages(p) ==
    {Absent(0), Data(List(<<>>))} \cup
    (IF p <= MaxPages
     THEN {Data(List(CommitPage(p, s[1], s[2]))) : s \in CommitPageShapes}
     ELSE {})

\* What the remote of a run holds.  pages: the pages of the repository
\* listing; readme and commits: by repository name, the README (or None) and
\* the pages of the commit listing.
World(prof, pages, readme, commit_pages) ==
    [kind |-> "world", profile |-> prof, pages |-> pages, readme |-> readme,
     commits |-> commit_pages]

Profile == [kind |-> "profile", login |-> username]

Readme(text) == [kind |-> "str", text |-> text]

\* Two repositories: the first with a README and three commits, one of
\* them not the user's; the second private, a fork, and with one commit
\* whose detail is gone.
SmallWorld ==
    World(Profile,
          << <<Repo(1, 2, "False", "False"), Repo(2, 1, "True", "True")>> >>,
          <<Readme(<<"#", "Installation", "usage">>), None>>,
          << << <<ListedCommit(11, username, "dev@example.org"),
                  ListedCommit(12, "none", "dev@example.org"),
                  ListedCommit(13, "other", "")>> >>,
             << <<ListedCommit(21, username, "none")>> >> >>)

EmptyWorld == World(Profile, <<>>, <<>>, <<>>)

NoProfileWorld == World(None, <<>>, <<>>, <<>>)

\* The second repository of the listing has no updated_at.
UndatedWorld ==
    World(Profile,
          << <<Repo(1, 1, "False", "False"), Repo(2, -1, "False", "False")>> >>,
          <<Readme(<<>>), None>>,
          << <<>>, <<>> >>)

\* 101 repositories, the last of page 1 listed again as the first of page 2
\* (a repository was created while the listing was fetched); it is the most
\* recently updated one and has one commit.
TwiceListedWorld ==
    World(Profile,
          << [i \in 1..PerPage |->
                 Repo(i, IF i = PerPage THEN 9 ELSE 1, "False", "False")],
             <<Repo(PerPage, 9, "False", "False"),
               Repo(PerPage + 1, 8, "False", "False")>> >>,
          [i \in 1..(PerPage + 1) |->
              IF i = 1 THEN Readme(<<"prose">>) ELSE None],
          [i \in 1..(PerPage + 1) |->
              IF i = PerPage
              THEN << <<ListedCommit(1001, username, "none")>> >>
              ELSE <<>>])

\* Twelve repositories, the later listed the more recently updated; the
\* third, the eleventh and the twelfth have one commit each.
TwelveWorld ==
    World(Profile,
          << [i \in 1..12 |-> Repo(i, i, "False", "False")] >>,
          [i \in 1..12 |-> IF i % 2 = 0 THEN Readme(<<"###", "fence">>)
                           ELSE None],
          [i \in 1..12 |->
              IF i \in {3, 11, 12}
              THEN << <<ListedCommit(100 * i + 1, username, "none")>> >>
              ELSE <<>>])

\* One repository with sixty commits of the user on one page.
SixtyCommitsWorld ==
    World(Profile,
          << <<Repo(1, 1, "False", "False")>> >>,
          <<None>>,
          << << [i \in 1..(DetailLimit + 10) |->
                    ListedCommit(1000 + i, username, "none")] >> >>)

Remotes ==
    {SmallWorld, EmptyWorld, NoProfileWorld, UndatedWorld, TwiceListedWorld,
     TwelveWorld, SixtyCommitsWorld}

ListingPage(p) ==
    IF p <= Len(remote.pages) THEN List(remote.pages[p]) ELSE List(<<>>)

CommitsPage(repo_name, p) ==
    IF p <= Len(remote.commits[repo_name])
    THEN List(remote.commits[repo_name][p])
    ELSE List(<<>>)

RepositoryAnswers ==
    IF remote = OpenRemote THEN RepositoryPages(page)
    ELSE Answers(ListingPage(page))

CommitAnswers(repo_name) ==
    IF remote = OpenRemote THEN CommitPages(page)
    ELSE Answers(CommitsPage(repo_name, page))

\* The files of a commit detail; a stat of -1 is a missing field.
FileInfo(filename, additions, deletions) == [filename |-> filename, additions |-> additions, deletions |-> deletions]

\* The detail the remote holds for a commit: none for one sha in seven;
\* no 'files' field for one in five; else no file, one, or two with a stat
\* missing each.
DetailOf(sha) ==
    IF sha % 7 = 0 THEN None
    ELSE [kind |-> "detail",
          message |-> [text |-> "message", len |-> 10],
          date |-> sha % 4,
          has_files |-> sha % 5 # 0,
          files |-> CASE sha % 3 = 0 -> <<>>
                      [] sha % 3 = 1 -> <<FileInfo("main.py", 3, 1)>>
                      [] sha % 3 = 2 -> <<FileInfo("README.md", 2, -1),
                                          FileInfo("app.js", -1, 4)>>]

\* file_info.get('additions', 0)
Stat(v) == IF v < 0 THEN 0 ELSE v

RECURSIVE FileAdditions(_)
FileAdditions(files) ==
    IF files = <<>> THEN 0
    ELSE Stat(Head(files).additions) + FileAdditions(Tail(files))

\* The mutant that counts the deletions of the first file only.
FileDeletions_FirstFile(files) ==
    IF files = <<>> THEN 0 ELSE Stat(Head(files).deletions)

RECURSIVE FileDeletions(_)
FileDeletions(files) ==
    IF files = <<>> THEN 0
    ELSE Stat(Head(files).deletions) + FileDeletions(Tail(files))

\* The mutant that takes the repository of a commit from its sha.
CommitFromDetail_ShaAsRepo(repo_name, sha, detail) ==
    LET files == IF detail.has_files THEN detail.files ELSE <<>> IN
    CommitData(sha, detail.message, detail.date, FileAdditions(files),
               FileDeletions(files),
               [i \in 1..Len(files) |-> files[i].filename], sha)

\* Lines 238 to 256: the CommitData of a commit whose detail was fetched.
CommitFromDetail(repo_name, sha, detail) ==
    LET files == IF detail.has_files THEN detail.files ELSE <<>> IN
    CommitData(sha, detail.message, detail.date, FileAdditions(files),
               FileDeletions(files),
               [i \in 1..Len(files) |-> files[i].filename], repo_name)

RepositoryData(name, updated_at, has_readme, readme_quality_score) == [name |-> name, updated_at |-> updated_at, has_readme |-> has_readme, readme_quality_score |-> readme_quality_score]

\* A request to the source-control API: the endpoint, the repository and
\* sha of its path and the page of its parameters (since is the same in all
\* requests of a run).
Request(endpoint, repo, sha, pg) == [endpoint |-> endpoint, repo |-> repo, sha |-> sha, page |-> pg]

\* The log of requests, each with the step of the program that issued it
\* and with what _make_request gave back: the kind of the answer and, for a
\* list, the number of its items.
Issue(request, a) ==
    Append(requests, [request |-> request, site |-> pc,
                      repo_index |-> repo_index,
                      commit_index |-> commit_index,
                      answer |-> a.kind,
                      items |-> IF a.kind = "data" /\ a.data.kind = "list"
                                THEN Len(a.data.items) ELSE 0])

\* The mutant that asks again for a detail that came back absent.
AfterDetail_RetryAbsent(a, index) ==
    IF a.kind = "absent" THEN index ELSE index + 1

\* The for loop of line 232 moves on whatever the detail request gave.
AfterDetail(a, index) == index + 1

\* The mutant that goes on to the repositories without a profile.
AfterProfile_Continue(a) ==
    IF a.kind = "raises" THEN "raised" ELSE "get_repositories"

\* Lines 788 to 791 and 829 to 831: where main stands after the profile
\* request: the exception handler, the return of line 791, or step 2.
AfterProfile(a) ==
    CASE a.kind = "raises" -> "raised"
      [] a.kind = "absent" -> "returned"
      [] OTHER -> "get_repositories"

Configs ==
    [GITHUB_USERNAME : {username}, GITHUB_TOKEN : {"", "token"},
     OPENAI_API_KEY : {"", "key"}]

InitMain ==
    /\ pc = "main"
    /\ config \in Configs
    /\ remote \in Remotes
    /\ faults = 0
    /\ requests = <<>>
    /\ profile = None
    /\ repo_data = <<>>
    /\ repo_index = 1
    /\ commit_index = 1
    /\ written_files = <<>>
    /\ exit_status = "running"
    /\ IdleRequest /\ IdleReadme /\ IdleRepos /\ IdlePaging /\ IdleAnalysis
    /\ IdleReport

\* main, lines 762 to 784: the validation of the configuration.
Main ==
    /\ pc = "main"
    /\ pc' = IF config.OPENAI_API_KEY = "" THEN "returned"
             ELSE "get_user_profile"
    /\ exit_status' = IF config.OPENAI_API_KEY = "" THEN "normal"
                      ELSE exit_status
    /\ UNCHANGED <<response, result, readme_content, readme_score, repos,
                  selected_repos, collaboration, page, commits, all_commits,
                  chat, chat_calls, skills, language_usage,
                  temporal_analysis, json_data, markdown, config, remote,
                  faults, requests, profile, repo_data, repo_index,
                  commit_index, written_files>>

\* Step 1, lines 788 to 791.
GetUserProfile ==
    /\ pc = "get_user_profile"
    /\ \E a \in Answers(remote.profile) :
          /\ requests' = Issue(Request("/users/{username}", 0, 0, 0), a)
          /\ faults' = faults + a.fault
          /\ profile' = a.data
          /\ pc' = AfterProfile(a)
          /\ exit_status' = CASE a.kind = "raises" -> "abnormal"
                              [] a.kind = "absent" -> "normal"
                              [] OTHER -> exit_status
    /\ UNCHANGED <<response, result, readme_content, readme_score, repos,
                  selected_repos, collaboration, page, commits, all_commits,
                  chat, chat_calls, skills, language_usage,
                  temporal_analysis, json_data, markdown, config, remote,
                  repo_data, repo_index, commit_index, written_files>>

\* get_repositories: one turn of its loop, which is one page request.
GetRepositories ==
    /\ pc = "get_repositories"
    /\ \E a \in RepositoryAnswers :
          LET turn == ExtendRepositories(repos, a) IN
          /\ requests' = Issue(Request("/users/{username}/repos", 0, 0, page), a)
          /\ faults' = faults + a.fault
          /\ repos' = turn.items
          /\ page' = page + turn.advance
          /\ pc' = CASE a.kind = "raises" -> "raised"
                     [] turn.stop -> "analyze_documentation_quality"
                     [] OTHER -> pc
          /\ exit_status' = IF a.kind = "raises" THEN "abnormal"
                            ELSE exit_status
    /\ UNCHANGED <<response, result, readme_content, readme_score,
                  selected_repos, collaboration, commits, all_commits, chat,
                  chat_calls, skills, language_usage, temporal_analysis,
                  json_data, markdown, config, remote, profile, repo_data,
                  repo_index, commit_index, written_files>>

\* analyze_documentation_quality: the end of its loop, or one turn of it:
\* the README request, whose failure of any kind is no README, then the
\* RepositoryData, which raises on a repository without updated_at.
AnalyzeDocumentationQuality ==
    /\ pc = "analyze_documentation_quality"
    /\ IF repo_index > Min(DocumentedLimit, Len(repos))
       THEN /\ pc' = "analyze_repository_activity"
            /\ UNCHANGED <<response, result, readme_content, readme_score, repos,
                      selected_repos, collaboration, page, commits,
                      all_commits, chat, chat_calls, skills, language_usage,
                      temporal_analysis, json_data, markdown, config,
                      remote, faults, requests, profile, repo_data,
                      repo_index, commit_index, written_files, exit_status>>
       ELSE LET repo == repos[repo_index] IN
            \E a \in Answers(remote.readme[repo.name]) :
               /\ requests' = Issue(Request("/repos/{username}/{repo}/readme",
                                            repo.name, 0, 0), a)
               /\ faults' = faults + a.fault
               /\ readme_content' = a.data
               /\ readme_score' = ReadmeScore(a.data)
               /\ repo_data' =
                     IF HasUpdatedAt(repo)
                     THEN Append(repo_data,
                                 RepositoryData(repo.name, repo.updated_at,
                                                a.data # None,
                                                ReadmeScore(a.data)))
                     ELSE repo_data
               /\ repo_index' = IF HasUpdatedAt(repo) THEN repo_index + 1
                                ELSE repo_index
               /\ pc' = IF HasUpdatedAt(repo) THEN pc ELSE "raised"
               /\ exit_status' = IF HasUpdatedAt(repo) THEN exit_status
                                 ELSE "abnormal"
               /\ UNCHANGED <<response, result, repos, selected_repos,
                      collaboration, page, commits, all_commits, chat,
                      chat_calls, skills, language_usage, temporal_analysis,
                      json_data, markdown, config, remote, profile,
                      commit_index, written_files>>

\* get_commits_for_repo for the repository the loop of line 225 stands at:
\* one turn of its loop, which is one page request; or the end of the loop
\* of line 225.
GetCommitsForRepo ==
    /\ pc = "get_commits_for_repo"
    /\ IF repo_index > Len(selected_repos)
       THEN /\ pc' = "analyze_collaboration_patterns"
            /\ UNCHANGED <<response, result, readme_content, readme_score, repos,
                      selected_repos, collaboration, page, commits,
                      all_commits, chat, chat_calls, skills, language_usage,
                      temporal_analysis, json_data, markdown, config,
                      remote, faults, requests, profile, repo_data,
                      repo_index, commit_index, written_files, exit_status>>
       ELSE LET repo_name == selected_repos[repo_index].name IN
            \E a \in CommitAnswers(repo_name) :
               LET turn == ExtendCommits(commits, a) IN
               /\ requests' =
                     Issue(Request("/repos/{username}/{repo}/commits",
                                   repo_name, 0, page), a)
               /\ faults' = faults + a.fault
               /\ commits' = turn.items
               /\ page' = page + turn.advance
               /\ pc' = CASE a.kind = "raises" -> "raised"
                          [] turn.stop -> "get_commit_details"
                          [] OTHER -> pc
               /\ exit_status' = IF a.kind = "raises" THEN "abnormal"
                                 ELSE exit_status
               /\ UNCHANGED <<response, result, readme_content, readme_score, repos,
                      selected_repos, collaboration, all_commits, chat,
                      chat_calls, skills, language_usage, temporal_analysis,
                      json_data, markdown, config, remote, profile,
                      repo_data, repo_index, commit_index, written_files>>

\* The loop of line 232: one detail request and the CommitData built from
\* its answer; or the end of the loop, on to the next selected repository.
GetCommitDetails ==
    /\ pc = "get_commit_details"
    /\ IF commit_index > Min(DetailLimit, Len(commits))
       THEN /\ repo_index' = repo_index + 1
            /\ commit_index' = 1
            /\ page' = 1
            /\ commits' = <<>>
            /\ pc' = "get_commits_for_repo"
            /\ UNCHANGED <<response, result, readme_content, readme_score, repos,
                      selected_repos, collaboration, all_commits, chat,
                      chat_calls, skills, language_usage, temporal_analysis,
                      json_data, markdown, config, remote, faults, requests,
                      profile, repo_data, written_files, exit_status>>
       ELSE LET repo_name == selected_repos[repo_index].name
                sha == commits[commit_index].sha
            IN
            \E a \in Answers(DetailOf(sha)) :
               /\ requests' =
                     Issue(Request("/repos/{username}/{repo}/commits/{sha}",
                                   repo_name, sha, 0), a)
               /\ faults' = faults + a.fault
               /\ all_commits' =
                     IF a.kind = "data"
                     THEN Append(all_commits,
                                 CommitFromDetail(repo_name, sha, a.data))
                     ELSE all_commits
               /\ commit_index' = IF a.kind = "raises" THEN commit_index
                                  ELSE AfterDetail(a, commit_index)
               /\ pc' = IF a.kind = "raises" THEN "raised" ELSE pc
               /\ exit_status' = IF a.kind = "raises" THEN "abnormal"
                                 ELSE exit_status
               /\ UNCHANGED <<response, result, readme_content, readme_score, repos,
                      selected_repos, collaboration, page, commits, chat,
                      chat_calls, skills, language_usage, temporal_analysis,
                      json_data, markdown, config, remote, profile,
                      repo_data, repo_index, written_files>>

Next ==
    \/ Main
    \/ GetUserProfile
    \/ GetRepositories
    \/ AnalyzeDocumentationQuality
    \/ SelectActiveRepositories
    \/ GetCommitsForRepo
    \/ GetCommitDetails
    \/ AnalyzeCollaborationPatterns
    \/ AnalyzeCommitsPrepare
    \/ AnalyzeCommitsChat
    \/ GenerateJsonReport
    \/ SaveReports

Spec == InitMain /\ [][Next]_vars

\* The two paginated fetches on their own, against the open remote.
InitPaging ==
    /\ pc \in {"get_repositories", "get_commits_for_repo"}
    /\ remote = OpenRemote
    /\ repos = <<>>
    /\ selected_repos = IF pc = "get_commits_for_repo"
                        THEN <<Repo(1, 1, "False", "False")>> ELSE <<>>
    /\ collaboration = None
    /\ config = None
    /\ faults = 0
    /\ requests = <<>>
    /\ profile = None
    /\ repo_data = <<>>
    /\ repo_index = 1
    /\ commit_index = 1
    /\ written_files = <<>>
    /\ exit_status = "running"
    /\ IdleRequest /\ IdleReadme /\ IdlePaging /\ IdleAnalysis /\ IdleReport

NextPaging == GetRepositories \/ GetCommitsForRepo

SpecPaging == InitPaging /\ [][NextPaging]_vars

\* C9 as claimed: whatever the pages of at most 100 items are, get_repositories
\* holds at most 300 repositories and get_commits_for_repo at most 200
\* commits of one repository.
C9_CapBoundsResult == Len(repos) <= RepoCap /\ Len(commits) <= CommitCap

\* C9 as amended: the cap is where a paginated fetch stops asking, not a
\* bound on what it returns: a page is requested only while fewer than 300
\* repositories (200 commits) are held, and it is added whole, so the fetch
\* returns fewer than 300 + 100 repositories and fewer than 200 + 100
\* commits; the repositories held before the last page came were fewer
\* than 300.
C9_CapStopsFetch ==
    /\ Len(repos) < RepoCap + PerPage
    /\ Len(commits) < CommitCap + PerPage
    /\ pc = "get_repositories" => Len(repos) < RepoCap
    /\ pc = "get_commits_for_repo" => Len(commits) < CommitCap
    /\ repos # <<>> =>
          Len(repos) - (((repos[Len(repos)].name - 1) % PerPage) + 1) < RepoCap

\* get_commits_for_repo has returned 299 commits: 99, then 100, then 100.
C9_Witness ==
    /\ pc = "get_commit_details"
    /\ Len(commits) = CommitCap + PerPage - 1
    /\ page = 4

\* C10 as claimed: no request to the source-control API is issued twice in
\* a run, and the chat endpoint is invoked exactly once in a run that
\* reaches the summarizer, also when the invocation fails.
C10_NoRequestTwice ==
    /\ \A i \in 1..(Len(requests) - 1) :
          requests[i].request # requests[Len(requests)].request
    /\ chat_calls <= 1
    /\ AfterChat => chat_calls = 1

\* Two entries of the log were issued by the same step of the program.
SameStep(e, f) ==
    /\ e.site = f.site
    /\ e.repo_index = f.repo_index
    /\ e.commit_index = f.commit_index
    /\ e.request.page = f.request.page

\* C10 as amended: no call is retried: no step of the program issues its
\* request twice, whatever the request returned; a request equal to an
\* earlier one comes only from a later turn of the same loop, when the
\* listing names a repository (or a commit) twice; and the chat endpoint is
\* invoked exactly once in a run that reaches the summarizer, also when the
\* invocation fails.  (Stated of the request issued last: every earlier one
\* was the last of an earlier state.)
C10_NoRetry ==
    /\ \A i \in 1..(Len(requests) - 1) :
          LET earlier == requests[i]
              last == requests[Len(requests)]
          IN  /\ ~SameStep(earlier, last)
              /\ earlier.request = last.request =>
                    /\ earlier.site = last.site
                    /\ earlier.request.repo # 0
                    /\ <<earlier.repo_index, earlier.commit_index>>
                         # <<last.repo_index, last.commit_index>>
    /\ chat_calls <= 1
    /\ AfterChat => chat_calls = 1

\* A run that ended with its reports written although one request came back
\* absent by failure and the chat call failed; the log holds the detail
\* request of a twice listed repository twice.
C10_Witness ==
    /\ pc = "done"
    /\ faults = 1
    /\ chat = ChatError
    /\ chat_calls = 1
    /\ \E i, j \in 1..Len(requests) :
          /\ i < j
          /\ requests[i].request = requests[j].request
          /\ requests[i].request.sha # 0

\* C11: the process ends abnormally when the model-API credential is
\* missing or when an exception left the pipeline, and normally in every
\* other run.
C11_ExitStatus ==
    exit_status # "running" =>
        (exit_status = "abnormal"
            <=> (config.OPENAI_API_KEY = "" \/ pc = "raised"))

\* The profile request was answered with absence.
ProfileAbsent ==
    /\ requests # <<>>
    /\ requests[1].site = "get_user_profile"
    /\ requests[1].answer = "absent"

\* C12: when the model-API credential is missing no request is issued and
\* the chat endpoint is not invoked; when the profile request returns
\* absence main returns: that request stays the only one of the run, the
\* chat endpoint is not invoked and no report file is written.
C12_FatalPreconditionStops ==
    /\ config.OPENAI_API_KEY = "" =>
          /\ requests = <<>>
          /\ chat_calls = 0
          /\ written_files = <<>>
          /\ pc \in {"main", "returned"}
    /\ ProfileAbsent =>
          /\ Len(requests) = 1
          /\ chat_calls = 0
          /\ written_files = <<>>
          /\ json_data = None
          /\ pc = "returned"

\* The remote holds the profile, the request for it failed all the same,
\* and main has returned.
C12_Witness ==
    /\ ProfileAbsent
    /\ remote.profile # None
    /\ faults = 1
    /\ pc = "returned"
    /\ exit_status = "normal"

\* The report holds a Repository record of this name.
InRepositoryAnalysis(name) ==
    \E i \in 1..Len(json_data.repository_analysis) :
        json_data.repository_analysis[i].name = name

\* C13 as claimed: every commit handed to the report carries the name of a
\* Repository record of the report's repository_analysis.
C13_CommitRepoInReport ==
    pc \in {"save", "done"} =>
        \A k \in 1..Len(all_commits) :
            InRepositoryAnalysis(all_commits[k].repo_name)

\* C13 as amended: every commit handed to the report carries the name of a
\* repository of the fetched listing that has an update time and was
\* selected for the activity analysis; the report holds a Repository record
\* of that name exactly when the repository is among the first 10 of the
\* listing.
C13_CommitRepoSelected ==
    pc \in {"save", "done"} =>
        \A k \in 1..Len(all_commits) :
            LET name == all_commits[k].repo_name IN
            /\ \E i \in 1..Len(selected_repos) : selected_repos[i].name = name
            /\ \E i \in 1..Len(repos) :
                  repos[i].name = name /\ repos[i].updated_at > 0
            /\ InRepositoryAnalysis(name)
                  <=> \E i \in 1..Min(DocumentedLimit, Len(repos)) :
                         repos[i].name = name

\* The report was written with a commit of the twelfth listed repository,
\* of which it holds no Repository record, and with ten records.
C13_Witness ==
    /\ pc = "done"
    /\ Len(json_data.repository_analysis) = DocumentedLimit
    /\ \E k \in 1..Len(all_commits) :
          /\ all_commits[k].repo_name = 12
          /\ ~InRepositoryAnalysis(12)

(***************************************************************************)
(* Steps 6 and 7 of main for any assessment                                *)
(***************************************************************************)

MaxAreas == 4

\* Assessments of every experience level with up to MaxAreas improvement
\* areas.
Assessments ==
    {SkillAssessment(<<>>, <<"writes tests">>, areas, level, <<>>,
                     "Inferred from commit patterns", 8) :
        areas \in UNION {[1..n -> {"small commits", "testing"}] :
                           n \in 0..MaxAreas},
        level \in {"Junior", "Mid-level", "Senior", "Unable to determine"}}

InitReport ==
    /\ pc = "report"
    /\ skills \in Assessments
    /\ all_commits = <<>>
    /\ chat = None
    /\ chat_calls = 0
    /\ language_usage = <<>>
    /\ temporal_analysis = None
    /\ IdleRequest /\ IdleReadme /\ IdleRepos /\ IdlePaging /\ IdleReport
    /\ IdleMain

NextReport == GenerateJsonReport \/ SaveReports

SpecReport == InitReport /\ [][NextReport]_vars

\* The places of the blocks of a category in the recommendation list.
BlocksOf(category) ==
    {i \in 1..Len(json_data.learning_recommendations) :
        json_data.learning_recommendations[i].category = category}

\* C14: the recommendation list holds exactly one "Communication &
\* Documentation" block; a "Technical Skills Development" block, of
\* priority High and listing the first min(3, n) improvement areas in
\* order, if and only if there is an improvement area; "Foundation
\* Building" if and only if the level is "Junior", "Advanced Development"
\* if and only if it is "Mid-level"; and no other block.
C14_RecommendationBlocks ==
    pc \in {"save", "done"} =>
        LET recs == json_data.learning_recommendations
            areas == skills.improvement_areas
        IN  /\ Cardinality(BlocksOf("Communication & Documentation")) = 1
            /\ Cardinality(BlocksOf("Technical Skills Development"))
                 = IF areas # <<>> THEN 1 ELSE 0
            /\ \A i \in BlocksOf("Technical Skills Development") :
                  /\ recs[i].priority = "High"
                  /\ Len(recs[i].items) = Min(3, Len(areas))
                  /\ \A k \in 1..Len(recs[i].items) :
                        recs[i].items[k] = <<"Focus on: ", areas[k]>>
            /\ Cardinality(BlocksOf("Foundation Building"))
                 = IF skills.experience_level = "Junior" THEN 1 ELSE 0
            /\ Cardinality(BlocksOf("Advanced Development"))
                 = IF skills.experience_level = "Mid-level" THEN 1 ELSE 0
            /\ \A i \in 1..Len(recs) :
                  recs[i].category \in
                      {"Communication & Documentation",
                       "Technical Skills Development",
                       "Foundation Building", "Advanced Development"}

\* A Mid-level assessment with four improvement areas got three blocks, the
\* first with three items.
C14_Witness ==
    /\ pc = "save"
    /\ Len(skills.improvement_areas) = 4
    /\ skills.experience_level = "Mid-level"
    /\ Len(json_data.learning_recommendations) = 3
    /\ Len(json_data.learning_recommendations[1].items) = 3

(***************************************************************************)
(* The paginated fetches, which go on as long as they can                  *)
(***************************************************************************)

SpecPagingFair == SpecPaging /\ WF_vars(NextPaging)

\* A paginated fetch is still in its loop.
Fetching == pc \in {"get_repositories", "get_commits_for_repo"}

\* The fetch at hand is get_repositories.
FetchesRepositories ==
    pc \in {"get_repositories", "analyze_documentation_quality"}

RECURSIVE ItemsListed(_)
ItemsListed(log) ==
    IF log = <<>> THEN 0 ELSE Head(log).items + ItemsListed(Tail(log))

\* The pages were requested in order and the loop was left, or is left, as
\* the claim says.
PagesInOrder ==
    LET n == Len(requests)
        held == IF FetchesRepositories THEN Len(repos) ELSE Len(commits)
        cap == IF FetchesRepositories THEN RepoCap ELSE CommitCap
    IN  /\ \A i \in 1..n : requests[i].request.page = i
        /\ \A i \in 1..(n - 1) : requests[i].items > 0
        /\ Fetching =>
              /\ n > 0 => requests[n].items > 0
              /\ page = n + 1
              /\ held < cap
        /\ ~Fetching =>
              /\ n > 0
              /\ requests[n].items = 0 \/ held >= cap
              /\ requests[n].items > 0 => held - requests[n].items < cap
        /\ IF FetchesRepositories
           THEN /\ Len(repos) = ItemsListed(requests)
                /\ \A k \in 1..(Len(repos) - 1) :
                      repos[k].name < repos[k + 1].name
           ELSE /\ Len(commits) <= ItemsListed(requests)
                /\ \A k \in 1..Len(commits) :
                      /\ IsUserCommit(commits[k])
                      /\ commits[k].sha <= PerPage * (n - 1)
                            + requests[n].items
                /\ \A k \in 1..(Len(commits) - 1) :
                      commits[k].sha < commits[k + 1].sha

\* C15: each paginated fetch requests pages 1, 2, 3, ... in order, leaves
\* its loop at the first page that is absent or empty or as soon as the
\* accumulated count reaches the cap, requests no page after that, returns
\* what it accumulated, and does leave its loop when the remote answers
\* absence or an empty page after finitely many pages, also when no commit
\* of the non-empty pages is the user's.
C15_PagesInOrderUntilStop == [](PagesInOrder) /\ <>(~Fetching)

\* get_commits_for_repo was answered three full pages without a commit of
\* the user and then an empty page, and returned no commit after four
\* requests.
C15_Witness ==
    /\ pc = "get_commit_details"
    /\ commits = <<>>
    /\ Len(requests) = 4
    /\ requests[3].items = PerPage
    /\ requests[4].answer = "data"
    /\ requests[4].items = 0

\* The detail requests of the log, and those that were answered a detail.
DetailRequests == SelectSeq(requests, LAMBDA e : e.site = "get_commit_details")

DetailsGiven == SelectSeq(DetailRequests, LAMBDA e : e.answer = "data")

\* The commits the remote lists for a repository (the worlds hold at most
\* one page of commits per repository).
Listed(repo_name) ==
    IF remote.commits[repo_name] = <<>> THEN <<>>
    ELSE remote.commits[repo_name][1]

\* A stat of a file as the remote gives it: nothing counts as 0.
Given(v) == IF v = -1 THEN 0 ELSE v

\* The loop of line 225 has been left.
ActivityAnalyzed ==
    pc \in {"analyze_collaboration_patterns", "ai", "chat", "report", "save",
            "done"}

\* C16: for each selected repository at most the first 50 retained commit
\* summaries get a detail request (all of them, when the commit pages came
\* without failure); a detail request answered with absence adds no commit
\* and the loop goes on with the next commit and the next repository; every
\* other detail request adds exactly one Commit, in order, with the sha and
\* the repository of the request, the sums of the per-file additions and
\* deletions and the file paths in order.
C16_DetailsOfFirstFifty ==
    /\ \A i \in 1..Len(requests) :
          requests[i].site = "get_commit_details" =>
              /\ requests[i].commit_index <= DetailLimit
              /\ requests[i].commit_index > 1 =>
                    /\ requests[i - 1].site = "get_commit_details"
                    /\ requests[i - 1].repo_index = requests[i].repo_index
                    /\ requests[i - 1].commit_index
                          = requests[i].commit_index - 1
    /\ Len(all_commits) = Len(DetailsGiven)
    /\ \A k \in 1..Len(all_commits) :
          LET c == all_commits[k]
              detail == DetailOf(c.sha)
              files == IF detail.has_files THEN detail.files ELSE <<>>
          IN  /\ c.sha = DetailsGiven[k].request.sha
              /\ c.repo_name = DetailsGiven[k].request.repo
              /\ Len(c.files_changed) = Len(files)
              /\ \A i \in 1..Len(files) :
                    c.files_changed[i] = files[i].filename
              /\ c.additions =
                    CASE Len(files) = 0 -> 0
                      [] Len(files) = 1 -> Given(files[1].additions)
                      [] Len(files) = 2 -> Given(files[1].additions)
                                             + Given(files[2].additions)
              /\ c.deletions =
                    CASE Len(files) = 0 -> 0
                      [] Len(files) = 1 -> Given(files[1].deletions)
                      [] Len(files) = 2 -> Given(files[1].deletions)
                                             + Given(files[2].deletions)
    /\ ActivityAnalyzed =>
          \A r \in 1..Len(selected_repos) :
              (\A i \in 1..Len(requests) :
                  requests[i].site = "get_commits_for_repo"
                    /\ requests[i].repo_index = r
                      => requests[i].answer = "data")
              => Cardinality({i \in 1..Len(requests) :
                                 /\ requests[i].site = "get_commit_details"
                                 /\ requests[i].repo_index = r})
                   = Min(DetailLimit,
                         Len(UserCommits(Listed(selected_repos[r].name))))

\* Of sixty commits fifty got a detail request; eight details are gone and
\* one more request failed, and the run ended with the other 41 commits.
C16_Witness ==
    /\ pc = "done"
    /\ remote = SixtyCommitsWorld
    /\ Len(DetailRequests) = DetailLimit
    /\ Len(all_commits) = DetailLimit - 9
    /\ \E i \in 1..(Len(requests) - 1) :
          /\ requests[i].site = "get_commit_details"
          /\ requests[i].answer = "absent"
          /\ requests[i + 1].site = "get_commit_details"

\* The commits the loop of line 361 processes.
Processed == Take(all_commits, ProcessedLimit)

\* The processed commits a copy of which lies in the early half.
InEarlyHalf ==
    {i \in 1..Len(Processed) :
        \E j \in 1..Len(temporal_analysis.early_commits) :
            temporal_analysis.early_commits[j] = Processed[i]}

InRecentHalf == (1..Len(Processed)) \ InEarlyHalf

\* The summaries of a period are those of the processed commits of the
\* given positions, in the order of the list.
HoldsSummaries(period, positions) ==
    /\ Len(period.commits) = Cardinality(positions)
    /\ \A i \in positions :
          period.commits[Cardinality({j \in positions : j <= i})]
              = CommitSummary(Processed[i])

Occurrences(cs, c) == Cardinality({j \in 1..Len(cs) : cs[j] = c})

\* C17: analyze_commits sorts the commits by date and splits the sorted
\* list at floor(n/2) into an early and a recent half; it processes at most
\* 100 commits, in the order of the list, and assigns each to exactly one
\* period, to the early one exactly when the commit (compared field by
\* field) lies in the early half, so to the recent one when n < 2; no
\* summary of the early period is dated later than one of the recent
\* period, and the overall count of every extension is the sum of its
\* counts in the two periods.
C17_ChronologicalPartition ==
    temporal_analysis # None =>
        LET n == Len(all_commits)
            early_commits == temporal_analysis.early_commits
            recent_commits == temporal_analysis.recent_commits
            commits_sorted == early_commits \o recent_commits
            early_period == temporal_analysis.early_period
            recent_period == temporal_analysis.recent_period
        IN  /\ Len(commits_sorted) = n
            /\ Len(early_commits) = n \div 2
            /\ \A i \in 1..(n - 1) :
                  commits_sorted[i].date <= commits_sorted[i + 1].date
            /\ \A i \in 1..n :
                  Occurrences(commits_sorted, all_commits[i])
                      = Occurrences(all_commits, all_commits[i])
            /\ Len(Processed) = Min(n, ProcessedLimit)
            /\ HoldsSummaries(early_period, InEarlyHalf)
            /\ HoldsSummaries(recent_period, InRecentHalf)
            /\ n < 2 => early_period.commits = <<>>
            /\ \A i \in 1..Len(early_period.commits) :
                  \A j \in 1..Len(recent_period.commits) :
                      early_period.commits[i].date
                          <= recent_period.commits[j].date
            /\ \A e \in CounterKeys(language_usage)
                          \cup CounterKeys(early_period.languages)
                          \cup CounterKeys(recent_period.languages) :
                  CounterGet(language_usage, e)
                      = CounterGet(early_period.languages, e)
                          + CounterGet(recent_period.languages, e)

\* More than 100 commits, newest first, that change files: the processed
\* ones fall into both periods.
C17_Witness ==
    /\ temporal_analysis # None
    /\ Len(all_commits) > ProcessedLimit
    /\ all_commits[1].date > all_commits[2].date
    /\ temporal_analysis.early_period.commits # <<>>
    /\ temporal_analysis.recent_period.commits # <<>>
    /\ Len(temporal_analysis.early_period.commits)
          < Len(temporal_analysis.early_commits)
    /\ temporal_analysis.early_period.languages # <<>>

\* A line that starts, once stripped, with a hyphen, the bullet sign or the
\* source's garbled bullet and a space, and the stripped line without its
\* first two characters.
BulletPrefixed(line) ==
    line \in {"- writes tests", "- small commits", "  - small commits",
              "- strengths in API design", "[bullet] documentation",
              "[garbled bullet] refactoring"}

Item(line) ==
    CASE line = "- writes tests" -> "writes tests"
      [] line \in {"- small commits", "  - small commits"} -> "small commits"
      [] line = "- strengths in API design" -> "strengths in API design"
      [] line = "[bullet] documentation" -> "documentation"
      [] line = "[garbled bullet] refactoring" -> "[half bullet] refactoring"

\* The section a line names, "None" when it names none: "STRENGTHS" is
\* looked for first.
Marker(line) ==
    IF line \in {"3. CURRENT STRENGTHS:", "- strengths in API design"}
    THEN "strengths"
    ELSE IF line \in {"4. Improvement areas:", "Focus Areas"}
    THEN "improvements"
    ELSE "None"

\* The section that is current at line i of a reply: the one the last
\* marker line before it named.
SectionAt(lines, i) ==
    LET markers == {j \in 1..(i - 1) : Marker(lines[j]) # "None"}
    IN  IF markers = {} THEN "None"
        ELSE Marker(lines[CHOOSE j \in markers : \A k \in markers : k <= j])

\* The bullet lines of a section, marker lines aside.
BulletLinesOf(lines, section) ==
    {i \in 1..Len(lines) :
        /\ Marker(lines[i]) = "None"
        /\ BulletPrefixed(lines[i])
        /\ SectionAt(lines, i) = section}

\* The list holds the first five bullet lines of the section in the
\* reply's order.
Collected(list, lines, section) ==
    LET wanted == BulletLinesOf(lines, section) IN
    /\ Len(list) = Min(5, Cardinality(wanted))
    /\ \A i \in wanted :
          LET k == Cardinality({j \in wanted : j <= i}) IN
          k <= 5 => list[k] = Item(lines[i])

\* C18: _parse_ai_response scans the reply line by line with one current
\* section; a line containing "STRENGTHS" switches to strengths, otherwise
\* one containing "IMPROVEMENT" or "AREAS" to improvements, every later
\* bullet-prefixed line is appended to the list of the current section,
\* bullet lines before any marker are dropped, and each list holds, in the
\* reply's order, at most the first 5 items collected.
C18_BulletLinesCollected ==
    (AfterChat /\ chat.kind = "reply") =>
        /\ Collected(skills.strengths, chat.content, "strengths")
        /\ Collected(skills.improvement_areas, chat.content, "improvements")

====
